---- MODULE Spec2Model ----
(***************************************************************************)
(* Bioaerosol ingestion service (Automate.py) and the dashboard's read of  *)
(* the history file (Streamlit_dashboard.py).                              *)
(*                                                                         *)
(* A table (pandas DataFrame) is a sequence of rows; a file is a record    *)
(* [hdr, rows, garbled]: the header line, the data lines written so far,   *)
(* and whether the bytes are no CSV at all.  A zero-byte file has an empty *)
(* header.  Concentrations are kept in units of 1/Scale so that the mean   *)
(* pivot_table takes over up to MaxBatchRows values is exact.              *)
(***************************************************************************)
EXTENDS Integers, Sequences, FiniteSets, TLC

\* ---------------------------------------------------------------- bounds
\* Dates and times of day that occur in the data.
MaxDate == 2
MaxTime == 2
\* Largest concentration the analysis script reports.
MaxConc == 2
\* Most long-format rows in one output of the analysis script.
MaxBatchRows == 2
\* Most long-format rows in one output while the whole loop is explored.
MaxLoopRows == 1
\* Most rows in the history file found at startup.
MaxFileRows == 3
\* The row cap of the history; the code's literal is 5000 (Automate.py:129),
\* scaled down so that the table can exceed it.
MaxRows == 2
\* Most exceptions the file system raises inside save_atomic in one run.
MaxFaults == 1
\* Ticks of the wall clock in one second.
TicksPerSecond == 2
\* The tick up to which the wall clock is followed.
MaxClock == 250
\* Longest run of the analysis script, in ticks.
MaxRunTime == 1
\* Times the wall clock is set back in one run.
MaxSetBacks == 1

\* ------------------------------------------------------------- constants
final_cols == <<"Date", "Time", "Bacteria", "Fungi", "Pollen", "PM2.5", "PM10">>

required_r_cols == <<"date", "time", "classification", "conc">>

\* Seconds slept at the end of an iteration and after a failed run.
WAIT_TIME == 60

\* Markers check_input_files looks for in the input file names.
AQMarker == <<"A", "Q", "_">>

FTMarker == <<"F", "T", "_">>

\* --------------------------------------------------------- generic helpers
RECURSIVE Factorial(_)
Factorial(n) == IF n <= 1 THEN 1 ELSE n * Factorial(n - 1)

Scale == Factorial(MaxBatchRows)

Range(s) == {s[i] : i \in 1..Len(s)}

SeqsUpTo(S, n) == UNION {[1..k -> S] : k \in 0..n}

\* "marker in name" for Python strings: marker occurs as a contiguous substring.
Contains(name, marker) ==
    \E i \in 0..(Len(name) - Len(marker)) :
        \A j \in 1..Len(marker) : name[i + j] = marker[j]

\* --------------------------------------------------------------- the data
Dates == 1..MaxDate

Times == 1..MaxTime

Keys == Dates \X Times

\* Classification labels: the three the code names, one that is a column of
\* the history, one that is neither.
Labels == {"Bacteria", "Fungi", "Pollen", "PM2.5", "Other"}

KeyOf(r) == <<r.Date, r.Time>>

LongKeyOf(r) == <<r.date, r.time>>

\* Lexicographic order on (Date, Time), as sort_values(by=['Date','Time']).
KeyLess(a, b) == a[1] < b[1] \/ (a[1] = b[1] /\ a[2] < b[2])

KeysOf(t) == {KeyOf(t[i]) : i \in 1..Len(t)}

WideRow(k, b, f, p, pm25, pm10) ==
    [Date |-> k[1], Time |-> k[2], Bacteria |-> b, Fungi |-> f, Pollen |-> p,
     PM25 |-> pm25, PM10 |-> pm10]

LongRows == [date : Dates, time : Times, classification : Labels, conc : 1..MaxConc]

\* ------------------------------------------------------------------ files
NoBytes == [hdr |-> <<>>, rows |-> <<>>, garbled |-> FALSE]

Garbled == [hdr |-> <<>>, rows |-> <<>>, garbled |-> TRUE]

Absent == [hdr |-> <<"<absent>">>, rows |-> <<>>, garbled |-> FALSE]

\* df.to_csv(path, index=False): the header line, then one line per row.
ToCsv(df) == [hdr |-> final_cols, rows |-> df, garbled |-> FALSE]

\* Number of lines of a file.
Lines(f) == (IF f.hdr = <<>> THEN 0 ELSE 1) + Len(f.rows)

\* pd.read_csv raises on bytes that are no CSV (ParserError) and on a file
\* with no header line (EmptyDataError).
ReadCsvRaises(f) == f.garbled \/ f.hdr = <<>>

HasCol(f, c) == c \in Range(f.hdr)

\* ---------------------------------------------------------- Batch Transformer
\* all(col in new_data.columns for col in required_r_cols)
HasRequiredCols(f) == \A i \in 1..Len(required_r_cols) : HasCol(f, required_r_cols[i])

RECURSIVE SumConc(_)
SumConc(rs) == IF rs = <<>> THEN 0 ELSE Head(rs).conc + SumConc(Tail(rs))

\* One cell of pivot_table(index=[date,time], columns=classification,
\* values=conc, fill_value=0): the mean (default aggfunc) of the group, or 0;
\* a column absent from the whole batch is back-filled with 0.0 the same way.
Cell(rows, k, label) ==
    LET grp == SelectSeq(rows, LAMBDA r : LongKeyOf(r) = k /\ r.classification = label)
    IN  IF grp = <<>> THEN 0 ELSE (Scale * SumConc(grp)) \div Len(grp)

\* Insert a row into a table sorted by key, after the rows with an equal key.
RECURSIVE InsertSorted(_, _)
InsertSorted(r, t) ==
    IF t = <<>> THEN <<r>>
    ELSE IF KeyLess(KeyOf(r), KeyOf(Head(t))) THEN <<r>> \o t
    ELSE <<Head(t)>> \o InsertSorted(r, Tail(t))

\* Variant: sort_values(by=['Time']).
RECURSIVE SortValuesByTime(_)
SortValuesByTime(t) ==
    IF t = <<>> THEN <<>>
    ELSE LET rest == SortValuesByTime(SubSeq(t, 1, Len(t) - 1))
             r == t[Len(t)]
             lo == SelectSeq(rest, LAMBDA x : x.Time <= r.Time)
             hi == SelectSeq(rest, LAMBDA x : x.Time > r.Time)
         IN  lo \o <<r>> \o hi

\* df.sort_values(by=['Date','Time']).reset_index(drop=True)
RECURSIVE SortValues(_)
SortValues(t) ==
    IF t = <<>> THEN <<>>
    ELSE InsertSorted(t[Len(t)], SortValues(SubSeq(t, 1, Len(t) - 1)))

\* Lines 92-117: pivot, rename, back-fill, project to the final columns.  The
\* result has one row per (date, time) of the batch, in key order.
PivotRow(rows, k) ==
    WideRow(k, Cell(rows, k, "Bacteria"), Cell(rows, k, "Fungi"),
            Cell(rows, k, "Pollen"), Cell(rows, k, "PM2.5"), Cell(rows, k, "PM10"))

RECURSIVE PivotKeys(_, _)
PivotKeys(rows, ks) ==
    IF ks = {} THEN <<>>
    ELSE LET k == CHOOSE x \in ks : \A y \in ks : x = y \/ KeyLess(x, y)
         IN  <<PivotRow(rows, k)>> \o PivotKeys(rows, ks \ {k})

Transform(rows) == PivotKeys(rows, {LongKeyOf(rows[i]) : i \in 1..Len(rows)})

\* ------------------------------------------------------------ History Store
\* Variant: drop_duplicates(subset=['Date','Time'], keep='first').
DropDuplicatesFirst(t) ==
    LET keep(i) == \A j \in 1..(i - 1) : KeyOf(t[j]) /= KeyOf(t[i])
        F[i \in 0..Len(t)] ==
            IF i = 0 THEN <<>>
            ELSE IF keep(i) THEN Append(F[i - 1], t[i]) ELSE F[i - 1]
    IN  F[Len(t)]

\* drop_duplicates(subset=['Date','Time'], keep='last')
DropDuplicates(t) ==
    LET keep(i) == \A j \in (i + 1)..Len(t) : KeyOf(t[j]) /= KeyOf(t[i])
        F[i \in 0..Len(t)] ==
            IF i = 0 THEN <<>>
            ELSE IF keep(i) THEN Append(F[i - 1], t[i]) ELSE F[i - 1]
    IN  F[Len(t)]

\* Variant: the result of drop_duplicates is not kept.
MergeRowsNoDedup(current, incoming) == SortValues(current \o incoming)

\* Variant: the result of sort_values is not kept.
MergeRowsNoSort(current, incoming) == DropDuplicates(current \o incoming)

\* Lines 122-126: concat, drop duplicates keeping the incoming row, sort.
MergeRows(current, incoming) == SortValues(DropDuplicates(current \o incoming))

\* Variant: the slice keeps one row too many.
CapRowsOffByOne(t) == IF Len(t) > MaxRows THEN SubSeq(t, Len(t) - MaxRows, Len(t)) ELSE t

\* Variant: the slice iloc[:5000] keeps the first rows.
CapRowsOldest(t) == IF Len(t) > MaxRows THEN SubSeq(t, 1, MaxRows) ELSE t

\* Lines 129-130: if len(master_df) > 5000: master_df = master_df.iloc[-5000:]
CapRows(t) == IF Len(t) > MaxRows THEN SubSeq(t, Len(t) - MaxRows + 1, Len(t)) ELSE t

\* ------------------------------------------------------------------ state
VARIABLES
    pc,               \* where main() is
    master_df,        \* the in-memory master table
    processed_batch,  \* the transformed batch of the current iteration
    input_dir,        \* names of the files in INPUT_DIR
    fs,               \* AUTOMATION_FILE ("hist") and its .tmp sibling ("tmp")
    expected_csv,     \* the file at TEMP_OUTPUT_DIR/<batch name>.csv
    rc,               \* how the last subprocess.run ended
    log,              \* which message the iteration printed last
    at,               \* where main() was when the process was stopped
    faults,           \* exceptions raised inside save_atomic so far
    iter_hist,        \* AUTOMATION_FILE as it was when the iteration began
    iter_master,      \* master_df as it was when the iteration began
    merged,           \* the iteration has merged its batch
    saved,            \* the iteration has replaced AUTOMATION_FILE
    ever_merged,      \* a merge and cap has completed since the load
    r_output,         \* the output file as the invocation of this iteration left it
    unsaved,          \* the batches merged since AUTOMATION_FILE was last replaced
    sleeps,           \* time.sleep(WAIT_TIME) calls of the current iteration
    seen_files,       \* the listing of INPUT_DIR on which the gate let main() pass
    committed,        \* the last complete content saved to AUTOMATION_FILE
    rd_pc,            \* where the dashboard's load_data() is
    rd_src,           \* the file load_data() has open: the one named
                      \* AUTOMATION_FILE ("live") or one replaced since ("orphan")
    orphan,           \* the replaced file load_data() still holds open
    rd_buf,           \* what load_data() has read so far
    rd_seen,          \* complete contents AUTOMATION_FILE had during the read
    now,              \* the local wall clock, in seconds
    timestamp_str,    \* the timestamp the current iteration took at its start
    batch_ids,        \* the timestamps of the iterations so far, in order
    setbacks          \* times the wall clock has been set back

loopVars == <<pc, master_df, processed_batch, input_dir, expected_csv, rc, log, at, faults,
              iter_hist, iter_master, merged, saved, ever_merged, r_output, unsaved, sleeps,
              seen_files>>

fsVars == <<fs, committed>>

rdVars == <<rd_pc, rd_src, orphan, rd_buf, rd_seen>>

clockVars == <<now, timestamp_str, batch_ids, setbacks>>

vars == <<loopVars, fsVars, rdVars, clockVars>>

AUTOMATION_FILE == fs.hist

\* ------------------------------------------------------------ environment
InputNames == {AQMarker \o <<"1">>, <<"x">> \o FTMarker}

\* Every batch within the bounds.
Batches == SeqsUpTo(LongRows, MaxBatchRows) \ {<<>>}

\* The whole loop is explored with batches of two labels at concentration 1.
LoopRows == {r \in LongRows : r.conc = 1 /\ r.classification \in {"Bacteria", "Fungi"}}

LoopBatches == SeqsUpTo(LoopRows, MaxLoopRows) \ {<<>>}

CsvOf(b) == [hdr |-> required_r_cols, rows |-> b, garbled |-> FALSE]

WithoutCol(c) == SelectSeq(required_r_cols, LAMBDA x : x /= c)

SampleRow == [date |-> 1, time |-> 1, classification |-> "Bacteria", conc |-> 1]

\* What the analysis script may leave at expected_csv when it exits with 0.
ROutputs ==
    {Absent, NoBytes, Garbled, [hdr |-> required_r_cols, rows |-> <<>>, garbled |-> FALSE]}
    \cup {[hdr |-> WithoutCol(c), rows |-> <<SampleRow>>, garbled |-> FALSE] :
              c \in Range(required_r_cols)}
    \cup {CsvOf(b) : b \in LoopBatches}

\* What it may leave there when it exits with a non-zero code.
FailOutputs == {Absent, Garbled}

\* History files that may be on disk when the service starts.
StartRows == {WideRow(k, Scale, 0, 0, 0, 0) : k \in Keys}

StartTables == SeqsUpTo(StartRows, MaxFileRows)

\* A readable file with one row and without column c.
FileWithout(c) ==
    LET r == WideRow(<<1, 1>>, Scale, 0, 0, 0, 0)
    IN  [hdr |-> SelectSeq(final_cols, LAMBDA x : x /= c),
         rows |-> <<[f \in (DOMAIN r) \ {c} |-> r[f]]>>,
         garbled |-> FALSE]

StartFiles ==
    {Absent, NoBytes, Garbled, FileWithout("Date"), FileWithout("Time")}
    \cup {ToCsv(t) : t \in StartTables}

\* ------------------------------------------------------------------- Init
Idle ==
    /\ processed_batch = <<>>
    /\ at = "running"
    /\ faults = 0
    /\ merged = FALSE
    /\ saved = FALSE
    /\ ever_merged = FALSE
    /\ unsaved = <<>>
    /\ sleeps = 0
    /\ rd_pc = "idle"
    /\ rd_src = "none"
    /\ orphan = NoBytes
    /\ rd_buf = NoBytes
    /\ rd_seen = {}
    /\ now = 0
    /\ timestamp_str = 0
    /\ batch_ids = <<>>
    /\ setbacks = 0

\* The service is about to start, over any history file.
InitWith(files) ==
    /\ Idle
    /\ pc = "load"
    /\ input_dir = {}
    /\ rc = "none"
    /\ log = "started"
    /\ master_df = <<>>
    /\ iter_master = <<>>
    /\ expected_csv = Absent
    /\ r_output = Absent
    /\ seen_files = {}
    /\ \E f \in files :
          /\ fs = [hist |-> f, tmp |-> Absent]
          /\ committed = f
          /\ iter_hist = f

Init == InitWith(StartFiles)

\* An iteration is about to read the output of a successful run: any batch
\* over any loaded table.
InitData ==
    /\ Idle
    /\ pc = "read"
    /\ input_dir = InputNames
    /\ rc = "ok"
    /\ log = "ran"
    /\ \E t \in StartTables :
          /\ master_df = t
          /\ iter_master = t
          /\ fs = [hist |-> ToCsv(t), tmp |-> Absent]
          /\ committed = ToCsv(t)
          /\ iter_hist = ToCsv(t)
    /\ seen_files = InputNames
    /\ \E b \in Batches :
          /\ expected_csv = CsvOf(b)
          /\ r_output = CsvOf(b)

\* ------------------------------------------------ the ingestion loop: main()
\* Variant: the exception is raised again and leaves main().
OnExceptionRaise == "terminated"

\* except Exception (lines 145-148): print, then fall through to the sleep.
OnException == "sleep"

\* Variant: the else branch raises out of the loop instead of printing.
AfterMalformedRaise == "terminated"

\* The else branch of the column check (lines 136-137) falls through to the
\* clean-up at line 143.
AfterMalformed == "remove"

\* Variant: the table is written straight to filepath.
temp_path_in_place == "hist"

\* temp_path = filepath.with_suffix('.tmp')
temp_path == "tmp"

\* Variant: only the Date column is looked for.
load_existing_history_date_only(f) ==
    IF f = Absent THEN <<>>
    ELSE IF ReadCsvRaises(f) THEN <<>>
    ELSE IF HasCol(f, "Date") THEN f.rows
    ELSE <<>>

\* load_existing_history()
load_existing_history(f) ==
    IF f = Absent THEN <<>>
    ELSE IF ReadCsvRaises(f) THEN <<>>
    ELSE IF HasCol(f, "Date") /\ HasCol(f, "Time") THEN f.rows
    ELSE <<>>

\* Variant: return has_aq or has_ft.
check_input_files_either(files) ==
    \/ \E n \in files : Contains(n, AQMarker)
    \/ \E n \in files : Contains(n, FTMarker)

\* check_input_files()
check_input_files(files) ==
    /\ \E n \in files : Contains(n, AQMarker)
    /\ \E n \in files : Contains(n, FTMarker)

\* Line 40.
Load ==
    /\ pc = "load"
    /\ master_df' = load_existing_history(AUTOMATION_FILE)
    /\ iter_master' = master_df'
    /\ pc' = "gate"
    /\ UNCHANGED <<processed_batch, input_dir, expected_csv, rc, log, at, faults, iter_hist,
                   merged, saved, ever_merged, r_output, unsaved, sleeps, seen_files,
                   fsVars, rdVars>>

\* Lines 42-44: one poll that finds the inputs incomplete, and its sleep.
GateWait ==
    /\ pc = "gate"
    /\ ~check_input_files(input_dir)
    /\ log' = "waiting"
    /\ UNCHANGED <<pc, master_df, processed_batch, input_dir, expected_csv, rc, at, faults,
                   iter_hist, iter_master, merged, saved, ever_merged, r_output, unsaved,
                   sleeps, seen_files, fsVars, rdVars>>

\* Lines 42, 46-48: the poll that finds both inputs.
GatePass ==
    /\ pc = "gate"
    /\ check_input_files(input_dir)
    /\ seen_files' = input_dir
    /\ log' = "detected"
    /\ pc' = "start"
    /\ UNCHANGED <<master_df, processed_batch, input_dir, expected_csv, rc, at, faults,
                   iter_hist, iter_master, merged, saved, ever_merged, r_output, unsaved,
                   sleeps, fsVars, rdVars>>

\* The instrument drops a file into INPUT_DIR.
InputArrives(names) ==
    /\ \E n \in names \ input_dir : input_dir' = input_dir \cup {n}
    /\ UNCHANGED <<pc, master_df, processed_batch, expected_csv, rc, log, at, faults,
                   iter_hist, iter_master, merged, saved, ever_merged, r_output, unsaved,
                   sleeps, seen_files, fsVars, rdVars>>

\* A file of INPUT_DIR is moved away or deleted.
InputLeaves ==
    /\ \E n \in input_dir : input_dir' = input_dir \ {n}
    /\ UNCHANGED <<pc, master_df, processed_batch, expected_csv, rc, log, at, faults,
                   iter_hist, iter_master, merged, saved, ever_merged, r_output, unsaved,
                   sleeps, seen_files, fsVars, rdVars>>

\* Lines 50-65: the top of an iteration.
Start ==
    /\ pc = "start"
    /\ pc' = "invoke"
    /\ rc' = "none"
    /\ log' = "loop"
    /\ processed_batch' = <<>>
    /\ iter_hist' = AUTOMATION_FILE
    /\ iter_master' = master_df
    /\ merged' = FALSE
    /\ saved' = FALSE
    /\ sleeps' = 0
    /\ r_output' = Absent
    /\ UNCHANGED <<master_df, input_dir, expected_csv, at, faults, ever_merged, unsaved,
                   seen_files, fsVars, rdVars>>

\* Lines 67-74: subprocess.run(cmd, check=True, ...).  Exit code 0 goes on to
\* the read; a non-zero exit raises CalledProcessError, which is caught; a
\* failure to launch raises an OSError, which no handler catches.
Invoke(outs) ==
    /\ pc = "invoke"
    /\ \/ /\ rc' = "ok"
          /\ expected_csv' \in outs
          /\ pc' = "exists"
          /\ log' = "ran"
       \/ /\ rc' = "nonzero"
          /\ expected_csv' \in FailOutputs
          /\ pc' = "cooldown"
          /\ log' = "rfail"
       \/ /\ rc' = "nolaunch"
          /\ expected_csv' = Absent
          /\ pc' = "terminated"
          /\ log' = "traceback"
    /\ r_output' = expected_csv'
    /\ UNCHANGED <<master_df, processed_batch, input_dir, at, faults, iter_hist,
                   iter_master, merged, saved, ever_merged, unsaved, sleeps, seen_files,
                   fsVars, rdVars>>

\* Lines 73-74: time.sleep(WAIT_TIME); continue.
Cooldown ==
    /\ pc = "cooldown"
    /\ pc' = "start"
    /\ sleeps' = sleeps + 1
    /\ UNCHANGED <<master_df, processed_batch, input_dir, expected_csv, rc, log, at, faults,
                   iter_hist, iter_master, merged, saved, ever_merged, r_output, unsaved,
                   seen_files, fsVars, rdVars>>

\* Lines 77-79, 149-150: expected_csv.exists().
Exists ==
    /\ pc = "exists"
    /\ IF expected_csv /= Absent
       THEN pc' = "read" /\ log' = log
       ELSE pc' = "sleep" /\ log' = "missing"
    /\ UNCHANGED <<master_df, processed_batch, input_dir, expected_csv, rc, at, faults,
                   iter_hist, iter_master, merged, saved, ever_merged, r_output, unsaved,
                   sleeps, seen_files, fsVars, rdVars>>

\* Lines 81-117, 136-140: read the output, test for emptiness and for the
\* required columns, pivot.  pivot_table can raise on a well-formed header
\* (a conc column that is not numeric).
ReadTransform ==
    /\ pc = "read"
    /\ IF ReadCsvRaises(expected_csv)
       THEN pc' = OnException /\ log' = "exception" /\ processed_batch' = <<>>
       ELSE IF expected_csv.rows = <<>>
       THEN pc' = "remove" /\ log' = "empty" /\ processed_batch' = <<>>
       ELSE IF ~HasRequiredCols(expected_csv)
       THEN pc' = AfterMalformed /\ log' = "malformed" /\ processed_batch' = <<>>
       ELSE \/ pc' = "merge" /\ log' = log /\ processed_batch' = Transform(expected_csv.rows)
            \/ pc' = OnException /\ log' = "exception" /\ processed_batch' = <<>>
    /\ UNCHANGED <<master_df, input_dir, expected_csv, rc, at, faults, iter_hist, iter_master,
                   merged, saved, ever_merged, r_output, unsaved, sleeps, seen_files,
                   fsVars, rdVars>>

\* Lines 122-126.
Merge ==
    /\ pc = "merge"
    /\ master_df' = MergeRows(master_df, processed_batch)
    /\ merged' = TRUE
    /\ unsaved' = Append(unsaved, processed_batch)
    /\ pc' = "cap"
    /\ UNCHANGED <<processed_batch, input_dir, expected_csv, rc, log, at, faults, iter_hist,
                   iter_master, saved, ever_merged, r_output, sleeps, seen_files, fsVars,
                   rdVars>>

\* Lines 129-130.
Limit ==
    /\ pc = "cap"
    /\ master_df' = CapRows(master_df)
    /\ ever_merged' = TRUE
    /\ pc' = "save"
    /\ UNCHANGED <<processed_batch, input_dir, expected_csv, rc, log, at, faults, iter_hist,
                   iter_master, merged, saved, r_output, unsaved, sleeps, seen_files,
                   fsVars, rdVars>>

\* An exception inside save_atomic (disk full, the target locked by another
\* process) reaches the handler of lines 145-148.
SaveRaises ==
    /\ faults < MaxFaults
    /\ faults' = faults + 1
    /\ pc' = OnException
    /\ log' = "exception"
    /\ UNCHANGED <<master_df, processed_batch, input_dir, expected_csv, rc, at, iter_hist,
                   iter_master, merged, saved, ever_merged, r_output, unsaved, sleeps,
                   seen_files, fsVars, rdVars>>

\* Variant: to_csv(temp_path, mode='a') keeps what an earlier save left behind.
OpenedForAppend(f) == IF f = Absent THEN NoBytes ELSE f

\* open(temp_path, 'w'): the file is created, or truncated to no bytes.
Truncated(f) == NoBytes

\* Line 33, opening: to_csv creates temp_path, or truncates it when an earlier
\* save left one behind.
SaveOpen ==
    /\ pc = "save"
    /\ \/ /\ fs' = [fs EXCEPT ![temp_path] = Truncated(fs[temp_path])]
          /\ pc' = "write"
          /\ UNCHANGED <<master_df, processed_batch, input_dir, expected_csv, rc, log, at,
                         faults, iter_hist, iter_master, merged, saved, ever_merged,
                         r_output, unsaved, sleeps, seen_files, committed, rdVars>>
       \/ SaveRaises

\* Line 33, writing: the header line, then the rows, one write at a time.
SaveWrite ==
    /\ pc = "write"
    /\ \/ LET f == fs[temp_path]
              n == Lines(f)
              g == IF n = 0 THEN [f EXCEPT !.hdr = final_cols]
                   ELSE [f EXCEPT !.rows = Append(f.rows, master_df[n])]
          IN  /\ n <= Len(master_df)
              /\ fs' = [fs EXCEPT ![temp_path] = g]
              /\ pc' = IF Lines(g) = Len(master_df) + 1 THEN "replace" ELSE "write"
              /\ UNCHANGED <<master_df, processed_batch, input_dir, expected_csv, rc, log, at,
                             faults, iter_hist, iter_master, merged, saved, ever_merged,
                             r_output, unsaved, sleeps, seen_files, committed, rdVars>>
       \/ SaveRaises

\* Line 34: os.replace(temp_path, filepath), then the print of line 134.  A
\* reader that has the replaced file open keeps that file.
Replace ==
    /\ pc = "replace"
    /\ \/ /\ IF temp_path = "hist"
             THEN UNCHANGED <<fs, rd_src, orphan>>
             ELSE /\ fs' = [hist |-> fs[temp_path], tmp |-> Absent]
                  /\ IF rd_pc = "reading" /\ rd_src = "live"
                     THEN rd_src' = "orphan" /\ orphan' = fs.hist
                     ELSE UNCHANGED <<rd_src, orphan>>
          /\ committed' = ToCsv(master_df)
          /\ rd_seen' = IF rd_pc = "reading" THEN rd_seen \cup {committed'}
                        ELSE rd_seen
          /\ saved' = TRUE
          /\ unsaved' = <<>>
          /\ log' = "success"
          /\ pc' = "remove"
          /\ UNCHANGED <<master_df, processed_batch, input_dir, expected_csv, rc, at, faults,
                         iter_hist, iter_master, merged, ever_merged, r_output, sleeps,
                         seen_files, rd_pc, rd_buf>>
       \/ SaveRaises

\* Line 143: os.remove(expected_csv).
Remove ==
    /\ pc = "remove"
    /\ expected_csv' = Absent
    /\ pc' = "sleep"
    /\ UNCHANGED <<master_df, processed_batch, input_dir, rc, log, at, faults, iter_hist,
                   iter_master, merged, saved, ever_merged, r_output, unsaved, sleeps,
                   seen_files, fsVars, rdVars>>

\* Lines 152-154: time.sleep(WAIT_TIME); loop_count is only printed.
Sleep ==
    /\ pc = "sleep"
    /\ pc' = "start"
    /\ sleeps' = sleeps + 1
    /\ UNCHANGED <<master_df, processed_batch, input_dir, expected_csv, rc, log, at, faults,
                   iter_hist, iter_master, merged, saved, ever_merged, r_output, unsaved,
                   seen_files, fsVars, rdVars>>

\* The process is stopped from outside (signal, power loss) inside the loop:
\* its memory is gone, the files stay as they are.
Kill ==
    /\ pc \notin {"load", "gate", "killed", "terminated"}
    /\ at' = pc
    /\ pc' = "killed"
    /\ master_df' = <<>>
    /\ processed_batch' = <<>>
    /\ iter_master' = <<>>
    /\ rc' = "none"
    /\ log' = "killed"
    /\ r_output' = Absent
    /\ unsaved' = <<>>
    /\ sleeps' = 0
    /\ UNCHANGED <<input_dir, expected_csv, faults, iter_hist, merged, saved,
                   ever_merged, seen_files, fsVars, rdVars>>

\* --------------------------------------------------- the dashboard: load_data()
\* Lines 45-49: exists(), then read_csv opens the file.
ReaderOpen ==
    /\ rd_pc \in {"idle", "done"}
    /\ IF fs.hist = Absent
       THEN /\ rd_pc' = "done"
            /\ rd_src' = "none"
            /\ rd_buf' = Absent
       ELSE /\ rd_pc' = "reading"
            /\ rd_src' = "live"
            /\ rd_buf' = NoBytes
    /\ rd_seen' = {committed}
    /\ UNCHANGED <<loopVars, fsVars, orphan>>

\* Line 49: read_csv reads the open file line by line up to its end.
ReaderRead ==
    /\ rd_pc = "reading"
    /\ LET f == IF rd_src = "orphan" THEN orphan ELSE fs.hist
           n == Lines(rd_buf)
       IN  IF f.garbled
           THEN /\ rd_buf' = f
                /\ rd_pc' = "done"
           ELSE IF n < Lines(f)
           THEN /\ rd_buf' = IF n = 0 THEN [rd_buf EXCEPT !.hdr = f.hdr]
                             ELSE [rd_buf EXCEPT !.rows = Append(rd_buf.rows, f.rows[n])]
                /\ rd_pc' = "reading"
           ELSE /\ rd_buf' = rd_buf
                /\ rd_pc' = "done"
    /\ rd_src' = IF rd_pc' = "done" THEN "none" ELSE rd_src
    /\ orphan' = IF rd_pc' = "done" THEN NoBytes ELSE orphan
    /\ UNCHANGED <<loopVars, fsVars, rd_seen>>

\* ------------------------------------------------------------ the wall clock
\* The clock counts ticks, TicksPerSecond to the second; datetime.now() reads
\* it and strftime("%Y%m%d_%H%M%S") keeps the whole seconds.
strftime(t) == t \div TicksPerSecond

\* A step during which the clock is not followed.
TimeStands == UNCHANGED clockVars

\* Lines 51-53: loop_start_time = datetime.now(), timestamp_str, and the batch
\* file name made of FILENAME_PREFIX and timestamp_str.
TakeTimestamp ==
    /\ timestamp_str' = strftime(now)
    /\ batch_ids' = Append(batch_ids, strftime(now))
    /\ UNCHANGED <<now, setbacks>>

\* d ticks pass.
Elapse(d) ==
    /\ now + d <= MaxClock
    /\ now' = now + d
    /\ UNCHANGED <<timestamp_str, batch_ids, setbacks>>

\* The local wall clock is set back: the end of daylight saving time, or a
\* correction by the time service or the operator.
ClockSetBack ==
    /\ setbacks < MaxSetBacks
    /\ setbacks' = setbacks + 1
    /\ \E t \in 0..(now - 1) : now' = t
    /\ UNCHANGED <<timestamp_str, batch_ids, loopVars, fsVars, rdVars>>

\* ------------------------------------------------------------ specifications
\* Spec, SpecData, SpecRW and SpecGate do not follow the clock: nothing the
\* loop does there depends on it.
Next ==
    \/ Load /\ TimeStands
    \/ GateWait /\ TimeStands
    \/ GatePass /\ TimeStands
    \/ InputArrives(InputNames) /\ TimeStands
    \/ Start /\ TimeStands
    \/ Invoke(ROutputs) /\ TimeStands
    \/ Cooldown /\ TimeStands
    \/ Exists /\ TimeStands
    \/ ReadTransform /\ TimeStands
    \/ Merge /\ TimeStands
    \/ Limit /\ TimeStands
    \/ SaveOpen /\ TimeStands
    \/ SaveWrite /\ TimeStands
    \/ Replace /\ TimeStands
    \/ Remove /\ TimeStands
    \/ Sleep /\ TimeStands
    \/ Kill /\ TimeStands

Spec == Init /\ [][Next]_vars

\* The transform, merge, cap and save of one iteration, over every batch.
NextData ==
    \/ ReadTransform /\ TimeStands
    \/ Merge /\ TimeStands
    \/ Limit /\ TimeStands
    \/ SaveOpen /\ TimeStands
    \/ SaveWrite /\ TimeStands
    \/ Replace /\ TimeStands

SpecData == InitData /\ [][NextData]_vars

\* The loop next to the dashboard's reads, over a few files and batches.
RWFiles == {Absent, Garbled, ToCsv(<<>>), ToCsv(<<WideRow(<<1, 2>>, Scale, 0, 0, 0, 0)>>)}

RWOutputs ==
    {Absent}
    \cup {CsvOf(<<r>>) : r \in {x \in LoopRows : x.classification = "Fungi" /\ x.date = 1}}

InitRW == InitWith(RWFiles)

NextRW ==
    \/ Load /\ TimeStands
    \/ GatePass /\ TimeStands
    \/ InputArrives(InputNames) /\ TimeStands
    \/ Start /\ TimeStands
    \/ Invoke(RWOutputs) /\ TimeStands
    \/ Cooldown /\ TimeStands
    \/ Exists /\ TimeStands
    \/ ReadTransform /\ TimeStands
    \/ Merge /\ TimeStands
    \/ Limit /\ TimeStands
    \/ SaveOpen /\ TimeStands
    \/ SaveWrite /\ TimeStands
    \/ Replace /\ TimeStands
    \/ Remove /\ TimeStands
    \/ Sleep /\ TimeStands
    \/ ReaderOpen /\ TimeStands
    \/ ReaderRead /\ TimeStands

SpecRW == InitRW /\ [][NextRW]_vars

\* One output and no history file, where the data do not matter.
SmallOutputs == {Absent, CsvOf(<<SampleRow>>)}

InitSmall == InitWith({Absent})

\* The loop with the wall clock: every sleep and every run of the analysis
\* script takes its time, and the clock may be set back.
NextClock ==
    \/ Load /\ TimeStands
    \/ GatePass /\ TimeStands
    \/ InputArrives(InputNames) /\ TimeStands
    \/ Start /\ TakeTimestamp
    \/ Invoke(SmallOutputs) /\ \E d \in 0..MaxRunTime : Elapse(d)
    \/ Cooldown /\ Elapse(WAIT_TIME * TicksPerSecond)
    \/ Exists /\ TimeStands
    \/ ReadTransform /\ TimeStands
    \/ Merge /\ TimeStands
    \/ Limit /\ TimeStands
    \/ SaveOpen /\ TimeStands
    \/ SaveWrite /\ TimeStands
    \/ Replace /\ TimeStands
    \/ Remove /\ TimeStands
    \/ Sleep /\ Elapse(WAIT_TIME * TicksPerSecond)
    \/ ClockSetBack

SpecClock == InitSmall /\ [][NextClock]_vars

\* Startup and the readiness gate while files come to and leave INPUT_DIR.
GateNames ==
    {AQMarker \o <<"1">>, <<"x">> \o FTMarker, AQMarker \o FTMarker,
     <<"A", "Q", "1">>, <<"l", "o", "g">>}

NextGate ==
    \/ Load /\ TimeStands
    \/ GateWait /\ TimeStands
    \/ GatePass /\ TimeStands
    \/ InputArrives(GateNames) /\ TimeStands
    \/ InputLeaves /\ TimeStands
    \/ Start /\ TimeStands
    \/ Invoke(SmallOutputs) /\ TimeStands
    \/ Cooldown /\ TimeStands
    \/ Exists /\ TimeStands
    \/ ReadTransform /\ TimeStands
    \/ Merge /\ TimeStands
    \/ Limit /\ TimeStands
    \/ SaveOpen /\ TimeStands
    \/ SaveWrite /\ TimeStands
    \/ Replace /\ TimeStands
    \/ Remove /\ TimeStands
    \/ Sleep /\ TimeStands

SpecGate == InitSmall /\ [][NextGate]_vars

\* ----------------------------------------------------------------- claims
\* No two rows share a (Date, Time) key.
UniqueKeys(t) == \A i, j \in 1..Len(t) : KeyOf(t[i]) = KeyOf(t[j]) => i = j

\* Rows ascend by (Date, Time).
Ascending(t) == \A i \in 1..(Len(t) - 1) : ~KeyLess(KeyOf(t[i + 1]), KeyOf(t[i]))

Normalised(t) == UniqueKeys(t) /\ Ascending(t) /\ Len(t) <= MaxRows

\* A readable output file that lacks one of date, time, classification, conc.
LacksRequired(f) ==
    /\ f /= Absent
    /\ ~ReadCsvRaises(f)
    /\ \E c \in {"date", "time", "classification", "conc"} : c \notin Range(f.hdr)

RowsWithKey(t, k) == SelectSeq(t, LAMBDA r : KeyOf(r) = k)

\* C1: whatever the interleaving of save_atomic with a dashboard read, the
\* content load_data() obtains is a complete content of the history file:
\* the one in place when the read began or one saved while it ran; never a
\* partially written one.
C1_ReaderSeesCompleteFile == rd_pc = "done" => rd_buf \in rd_seen

\* A read that ran across a save and returned rows.
C1_Witness ==
    /\ rd_pc = "done"
    /\ Cardinality(rd_seen) >= 2
    /\ rd_buf.rows /= <<>>

\* C2: when the process is stopped in an iteration before the rename of
\* save_atomic, the history file is what it was when that iteration began.
C2_KillBeforeRenameKeepsFile == (pc = "killed" /\ ~saved) => AUTOMATION_FILE = iter_hist

\* Stopped after the temporary file was written in full, before the rename.
C2_Witness ==
    /\ pc = "killed"
    /\ at = "replace"
    /\ ~saved
    /\ fs.tmp /= Absent
    /\ fs.tmp.rows /= <<>>
    /\ fs.tmp /= fs.hist

\* C3: no outcome of an iteration ends the service; every iteration is
\* followed by the next one.  Stated as what that requires of every state:
\* main() has not been left through an exception.
C3_NoOutcomeTerminates == pc /= "terminated"

\* C4: when the executable fails, by a non-zero exit or by not launching,
\* the iteration is aborted, the cooldown is applied and the loop goes on.
C4_InvokeFailureContinues ==
    rc \in {"nonzero", "nolaunch"} => pc \in {"cooldown", "start"}

\* C5: in an iteration whose invocation fails, master table and history file
\* are unchanged, the output file is not read, and the loop waits and goes
\* to the next iteration.
C5_InvokeFailureFrame ==
    rc \in {"nonzero", "nolaunch"} =>
        /\ master_df = iter_master
        /\ AUTOMATION_FILE = iter_hist
        /\ log = "rfail"
        /\ pc \in {"cooldown", "start"}

\* C6: in an iteration whose output file is present but lacks a required
\* column, no exception leaves the iteration, no merge or save is entered,
\* and master table and history file are what they were before it.
C6_MalformedBatchLeavesHistory ==
    (rc = "ok" /\ LacksRequired(expected_csv)) =>
        /\ pc \in {"exists", "read", "remove"}
        /\ master_df = iter_master
        /\ AUTOMATION_FILE = iter_hist
        /\ (pc = "remove" => log = "malformed")

\* The malformed output has been read and rejected.
C6_Witness ==
    /\ pc = "remove"
    /\ log = "malformed"
    /\ LacksRequired(expected_csv)
    /\ "conc" \notin Range(expected_csv.hdr)
    /\ master_df /= <<>>

\* C7 as claimed: from the initial load onward, whatever well-formed file
\* was there at startup, the master table has unique keys, is sorted and has
\* at most the cap's rows (the state between merge and cap left aside).
C7_Original == pc \notin {"load", "cap"} => Normalised(master_df)

\* C7 as amended: from the first completed merge and cap of a run onward the
\* master table has unique keys, is sorted ascending by (Date, Time) and has
\* at most the cap's rows; between an iteration's merge and its cap it is
\* unique and sorted but may exceed the cap.
C7_NormalisedAfterFirstMerge ==
    /\ (ever_merged \/ pc = "cap") => (UniqueKeys(master_df) /\ Ascending(master_df))
    /\ (ever_merged /\ pc /= "cap") => Len(master_df) <= MaxRows

\* A loaded table that broke all three has been merged into and capped.
C7_Witness ==
    /\ pc = "save"
    /\ ever_merged
    /\ ~UniqueKeys(iter_master)
    /\ ~Ascending(iter_master)
    /\ Len(iter_master) > MaxRows
    /\ Len(master_df) = MaxRows

MergedAsClaimed(current, incoming, result) ==
    \A k \in Keys :
        LET got == RowsWithKey(result, k)
        IN  IF k \in KeysOf(incoming)
            THEN Len(got) = 1 /\ got[1] \in Range(incoming)
            ELSE IF k \in KeysOf(current)
            THEN Len(got) = 1 /\ got[1] \in Range(current)
            ELSE got = <<>>

\* C9: a merge leaves exactly one row for a key present on both sides, with
\* the incoming row's values; a key on one side only keeps that side's row.
C9_MergeKeepsIncoming ==
    [][(pc = "merge" /\ pc' = "cap") =>
          MergedAsClaimed(master_df, processed_batch, master_df')]_vars

\* A merge with a conflicting key of different values, a key only in the
\* table and a key only in the batch.
C9_Witness ==
    /\ pc = "cap"
    /\ \E i \in 1..Len(iter_master), j \in 1..Len(processed_batch) :
          /\ KeyOf(iter_master[i]) = KeyOf(processed_batch[j])
          /\ iter_master[i] /= processed_batch[j]
          /\ processed_batch[j] \in Range(master_df)
    /\ KeysOf(iter_master) \ KeysOf(processed_batch) /= {}
    /\ KeysOf(processed_batch) \ KeysOf(iter_master) /= {}

\* C10: merging and capping the same batch a second time gives the master
\* table, and the saved file, that merging it once gave.
C10_MergeIdempotent ==
    LET again == CapRows(MergeRows(master_df, processed_batch))
    IN  /\ pc \in {"save", "write", "replace", "remove"} => again = master_df
        /\ saved => AUTOMATION_FILE = ToCsv(again)

\* Saved after a merge into a table over the cap that evicted a batch row.
C10_Witness ==
    /\ saved
    /\ Len(iter_master) > MaxRows
    /\ KeysOf(processed_batch) \ KeysOf(master_df) /= {}
    /\ KeysOf(processed_batch) \cap KeysOf(master_df) /= {}

\* What C11 says of one cap of table before giving table after.
CappedAsClaimed(before, after) ==
    IF Len(before) > MaxRows
    THEN /\ Len(after) = MaxRows
         /\ Range(after) \subseteq Range(before)
         /\ \A r \in Range(before) \ Range(after), q \in Range(after) :
                KeyLess(KeyOf(r), KeyOf(q))
         /\ after = SelectSeq(before, LAMBDA r : r \in Range(after))
    ELSE after = before

\* C11: capping a merged table of more rows than the cap leaves exactly the
\* cap's number of rows, those with the largest (Date, Time) keys, in the
\* order they had; a table of at most the cap's rows is left as it is.
C11_CapKeepsNewest ==
    [][(pc = "cap" /\ pc' = "save") => CappedAsClaimed(master_df, master_df')]_vars

\* A merge gave more rows than the cap, and the cap cut them down.
C11_Witness ==
    /\ pc = "save"
    /\ Len(MergeRows(iter_master, processed_batch)) > MaxRows
    /\ Len(master_df) = MaxRows
    /\ master_df /= SubSeq(MergeRows(iter_master, processed_batch), 1, MaxRows)

\* No two rows of the batch carry the same label for the same (date, time).
OncePerTimestamp(batch) ==
    \A i, j \in 1..Len(batch) :
        (LongKeyOf(batch[i]) = LongKeyOf(batch[j])
            /\ batch[i].classification = batch[j].classification) => i = j

\* The concentration the batch gives for a label at a key, 0 when it gives none.
ConcOf(batch, k, label) ==
    LET grp == SelectSeq(batch, LAMBDA r : LongKeyOf(r) = k /\ r.classification = label)
    IN  IF grp = <<>> THEN 0 ELSE Scale * grp[1].conc

\* What C12 says of the transform of batch giving the table wide.
PivotAsClaimed(batch, wide) ==
    /\ UniqueKeys(wide)
    /\ KeysOf(wide) = {LongKeyOf(batch[i]) : i \in 1..Len(batch)}
    /\ \A i \in 1..Len(wide) :
           LET w == wide[i]
           IN  /\ w.Bacteria = ConcOf(batch, KeyOf(w), "Bacteria")
               /\ w.Fungi = ConcOf(batch, KeyOf(w), "Fungi")
               /\ w.Pollen = ConcOf(batch, KeyOf(w), "Pollen")
               /\ w.PM25 = 0
               /\ w.PM10 = 0

\* C12: the transform of a batch whose labels occur once per timestamp gives
\* one wide row per (date, time) of the batch; its Bacteria, Fungi and Pollen
\* are the concentrations of the batch rows with these labels, 0 where there
\* is none; its PM2.5 and PM10 are 0; no other label leaves a trace.
C12_PivotAsClaimed ==
    (pc = "merge" /\ OncePerTimestamp(r_output.rows)) =>
        PivotAsClaimed(r_output.rows, processed_batch)

\* The rows a stop would lose now: in the master table, not in the file.
Lost == Range(master_df) \ Range(AUTOMATION_FILE.rows)

EmptyContent(f) == f /= Absent /\ ~f.garbled /\ f.rows = <<>>

\* C14: in an iteration whose invocation succeeded and left no output file,
\* or one without content, nothing is merged or saved, master table and
\* history file stay what they were, main() is not left, and the iteration
\* ends with one sleep of the wait time before the next one starts.
C14_NoOutputNoMerge ==
    (rc = "ok" /\ (r_output = Absent \/ EmptyContent(r_output))) =>
        /\ pc \in {"exists", "read", "remove", "sleep", "start"}
        /\ ~merged
        /\ ~saved
        /\ master_df = iter_master
        /\ AUTOMATION_FILE = iter_hist
        /\ pc = "sleep" => log \in {"missing", "empty", "exception"}
        /\ pc = "start" => sleeps = 1

\* The iteration found a file of no bytes, over a table loaded with rows,
\* and has slept.
C14_Witness ==
    /\ rc = "ok"
    /\ r_output = NoBytes
    /\ pc = "start"
    /\ sleeps = 1
    /\ log = "exception"
    /\ master_df /= <<>>

\* An iteration has run to its end: main() is at the top of the loop again,
\* or has been left.
IterationEnded == (pc = "start" /\ rc /= "none") \/ pc = "terminated"

\* C15: every iteration, however it went, ends with exactly one sleep of the
\* wait time before the next one starts.
C15_OneSleepPerIteration ==
    /\ sleeps <= 1
    /\ IterationEnded => sleeps = 1

\* C16: the timestamps, and so the batch file names, of any two iterations
\* of one run differ.
C16_BatchIdsDistinct ==
    \A i, j \in 1..Len(batch_ids) : batch_ids[i] = batch_ids[j] => i = j

\* A listing with a name that contains "AQ_" and a name that contains "FT_".
BothMarkers(files) ==
    /\ \E n \in files : \E i \in 1..(Len(n) - 2) :
           n[i] = "A" /\ n[i + 1] = "Q" /\ n[i + 2] = "_"
    /\ \E n \in files : \E i \in 1..(Len(n) - 2) :
           n[i] = "F" /\ n[i + 1] = "T" /\ n[i + 2] = "_"

\* C17: main() is past the gate, and so the analysis script invoked, only
\* after one listing of INPUT_DIR showed a name with the AQ marker and a name
\* with the FT marker; while the listing does not, main() stays at the gate.
C17_GateBeforeInvoke ==
    /\ [](pc \notin {"load", "gate"} => BothMarkers(seen_files))
    /\ [][(pc = "gate" /\ ~BothMarkers(input_dir)) => pc' = "gate"]_vars

\* The script has run after the gate passed on a listing with both markers
\* and other names; one of the marked files has left since.
C17_Witness ==
    /\ pc = "exists"
    /\ rc = "ok"
    /\ BothMarkers(seen_files)
    /\ <<"A", "Q", "1">> \in seen_files
    /\ AQMarker \o FTMarker \notin seen_files
    /\ ~BothMarkers(input_dir)

\* A file load can take its rows from: there, readable, with Date and Time.
LoadableFile(f) ==
    /\ f /= Absent
    /\ ~f.garbled
    /\ f.hdr /= <<>>
    /\ "Date" \in Range(f.hdr)
    /\ "Time" \in Range(f.hdr)

\* C18: the load at startup never ends the service; it gives the file's
\* rows when the file is there, readable and has a Date and a Time column,
\* and the empty table otherwise; it leaves the file as it was.
C18_LoadNeverFails ==
    /\ pc = "gate" =>
           /\ master_df = IF LoadableFile(iter_hist) THEN iter_hist.rows ELSE <<>>
           /\ AUTOMATION_FILE = iter_hist
    /\ pc = "terminated" => rc = "nolaunch"

\* Loaded from a readable file with a row that lacks the Time column.
C18_Witness ==
    /\ pc = "gate"
    /\ AUTOMATION_FILE = FileWithout("Time")
    /\ AUTOMATION_FILE.rows /= <<>>
    /\ master_df = <<>>

\* An output file with data rows and the four required columns.
WellFormedOutput(f) ==
    /\ f /= Absent
    /\ ~f.garbled
    /\ f.rows /= <<>>
    /\ {"date", "time", "classification", "conc"} \subseteq Range(f.hdr)

\* sort(dedup-keep-incoming(previous master table, then the transformed batch)).
MergedOnce == SortValues(DropDuplicates(iter_master \o Transform(r_output.rows)))

\* The iteration's steps come in the order merge, cap, persist.
MergeCapPersist ==
    /\ pc = "cap" => (merged /\ ~saved /\ master_df = MergedOnce)
    /\ pc \in {"save", "write", "replace"} =>
           (merged /\ ~saved /\ master_df = CapRows(MergedOnce))
    /\ saved => merged

C20_StagingFileRemoved ==
    (rc = "ok" /\ r_output /= Absent /\ pc \in {"sleep", "start"}) =>
        expected_csv = Absent

====
